---------------------------- MODULE Spec2Model ----------------------------
(***************************************************************************)
(* Model of duecredit/versions.py: the UnknownVersion sentinel and the     *)
(* ExternalVersions registry (a lazy, memoizing map from module name to a  *)
(* StrictVersion, a LooseVersion or the UNKNOWN sentinel).                 *)
(*                                                                         *)
(* Python values are records tagged by their type in field t.  A string    *)
(* is a sequence of one-character strings, so that parsing, joining and    *)
(* formatting are computed and not assumed.  An exception that leaves a    *)
(* call is the value Raise(exc).                                           *)
(***************************************************************************)
EXTENDS Integers, Sequences, FiniteSets, TLC

VARIABLES
    _versions,    \* ExternalVersions._versions: module name -> version value
    sys_modules,  \* sys.modules: name -> loaded module handle
    lookedUp,     \* history: names for which __getitem__ obtained a handle
    called,       \* history: the most recent call, its inputs and its outcome
    snapshot,     \* the mapping a caller holds after reading the versions property
    threads       \* the calls of __getitem__ in progress in concurrent threads

vars == <<_versions, sys_modules, lookedUp, called, snapshot, threads>>

----------------------------------------------------------------------------
(* Bounds of the inputs the model draws.                                   *)

\* longest enumerated version string
MaxStrLen == 3
\* most parts in an enumerated version tuple or list
MaxParts == 2
\* largest integer part in an enumerated version tuple or list
MaxPart == 2

----------------------------------------------------------------------------
(* Python values                                                           *)

PyNone == [t |-> "None"]
PyStr(chars) == [t |-> "str", s |-> chars]
PyInt(i) == [t |-> "int", n |-> i]
PyTuple(xs) == [t |-> "tuple", items |-> xs]
PyList(xs) == [t |-> "list", items |-> xs]
\* an object that is neither a string nor a sequence nor a number, such as a
\* submodule or a function bound to the name "version"
PyObject == [t |-> "object"]
Raise(e) == [t |-> "raise", exc |-> e]
NotImplemented == [t |-> "NotImplemented"]
PyBool(b) == [t |-> "bool", b |-> b]

IsRaise(v) == v.t = "raise"

DigitChars == <<"0", "1", "2", "3", "4", "5", "6", "7", "8", "9">>
LowerChars == {"a", "b", "c", "d", "e", "f", "g", "h", "i", "j", "k", "l", "m",
               "n", "o", "p", "q", "r", "s", "t", "u", "v", "w", "x", "y", "z"}

IsDigit(c) == \E i \in 1..10 : DigitChars[i] = c
IsLower(c) == c \in LowerChars
DigitVal(c) == (CHOOSE i \in 1..10 : DigitChars[i] = c) - 1

\* int(s) for a non-empty string of digits
RECURSIVE StrToInt(_)
StrToInt(s) ==
    IF s = <<>> THEN 0
    ELSE StrToInt(SubSeq(s, 1, Len(s) - 1)) * 10 + DigitVal(s[Len(s)])

\* str(n) for a natural number
RECURSIVE IntToStr(_)
IntToStr(n) ==
    IF n < 10 THEN <<DigitChars[n + 1]>>
    ELSE IntToStr(n \div 10) \o <<DigitChars[(n % 10) + 1]>>

\* str(x) of a part of a version tuple
PyStrOf(x) ==
    CASE x.t = "str" -> x.s
      [] x.t = "int" -> IntToStr(x.n)
      [] x.t = "None" -> <<"N", "o", "n", "e">>

\* sep.join(str(x) for x in items)
RECURSIVE JoinStr(_, _)
JoinStr(items, sep) ==
    IF items = <<>> THEN <<>>
    ELSE IF Len(items) = 1 THEN PyStrOf(items[1])
    ELSE PyStrOf(items[1]) \o sep \o JoinStr(Tail(items), sep)

\* bool(v)
Truthy(v) ==
    CASE v.t = "None" -> FALSE
      [] v.t = "str" -> v.s # <<>>
      [] v.t = "int" -> v.n # 0
      [] v.t = "bool" -> v.b
      [] v.t \in {"tuple", "list"} -> v.items # <<>>
      [] OTHER -> TRUE

----------------------------------------------------------------------------
(* distutils.version: the two parsers the registry calls                   *)

\* number of leading digits of s
RECURSIVE LeadDigits(_)
LeadDigits(s) ==
    IF s # <<>> /\ IsDigit(Head(s)) THEN 1 + LeadDigits(Tail(s)) ELSE 0

Drop(s, k) == SubSeq(s, k + 1, Len(s))
Take(s, k) == SubSeq(s, 1, k)

NoMatch == [ok |-> FALSE]

\* characters taken by the optional group (\.(\d+))? at the head of r
PatchLen(r) ==
    IF r # <<>> /\ Head(r) = "." /\ LeadDigits(Tail(r)) > 0
    THEN 1 + LeadDigits(Tail(r)) ELSE 0

\* characters taken by the optional group ([ab](\d+))? at the head of r
PrereleaseLen(r) ==
    IF r # <<>> /\ Head(r) \in {"a", "b"} /\ LeadDigits(Tail(r)) > 0
    THEN 1 + LeadDigits(Tail(r)) ELSE 0

\* StrictVersion.parse: the groups of a match, of lengths n1 "." n2 n3 n4,
\* must take the whole string; version and prerelease are built from them
StrictGroups(s, n1, n2, n3, n4) ==
    IF n1 + 1 + n2 + n3 + n4 # Len(s) THEN NoMatch
    ELSE [ok |-> TRUE,
          version |-> <<StrToInt(SubSeq(s, 1, n1)),
                        StrToInt(SubSeq(s, n1 + 2, n1 + 1 + n2)),
                        IF n3 = 0 THEN 0
                        ELSE StrToInt(SubSeq(s, n1 + n2 + 3, n1 + 1 + n2 + n3))>>,
          prerelease |-> IF n4 = 0 THEN <<>>
                         ELSE <<s[n1 + n2 + n3 + 2],
                                StrToInt(SubSeq(s, n1 + n2 + n3 + 3, Len(s)))>>]

StrictAfterMinor(s, n1, n2, n3) ==
    StrictGroups(s, n1, n2, n3, PrereleaseLen(Drop(s, n1 + 1 + n2 + n3)))

StrictAfterDot(s, n1, n2) ==
    IF n2 = 0 THEN NoMatch
    ELSE StrictAfterMinor(s, n1, n2, PatchLen(Drop(s, n1 + 1 + n2)))

StrictAfterMajor(s, n1) ==
    IF n1 = 0 \/ n1 >= Len(s) \/ s[n1 + 1] # "." THEN NoMatch
    ELSE StrictAfterDot(s, n1, LeadDigits(Drop(s, n1 + 1)))

\* StrictVersion.version_re: ^(\d+)\.(\d+)(\.(\d+))?([ab](\d+))?$  (ASCII),
\* matched left to right: each group is greedy and the next one cannot
\* start with a digit, so no other split of the string can match
StrictMatch(s) == StrictAfterMajor(s, LeadDigits(s))

\* StrictVersion(vstring): the object, or the exception the constructor raises
StrictVersion(v) ==
    IF v.t # "str" THEN Raise("TypeError")
    ELSE LET m == StrictMatch(v.s)
         IN  IF m.ok
             THEN [t |-> "StrictVersion", version |-> m.version,
                   prerelease |-> m.prerelease]
             ELSE Raise("ValueError")

CharClass(c) ==
    CASE IsDigit(c) -> "digit"
      [] IsLower(c) -> "lower"
      [] c = "." -> "dot"
      [] OTHER -> "other"

\* length of the leading run of characters of class k
RECURSIVE RunLen(_, _)
RunLen(s, k) ==
    IF s # <<>> /\ CharClass(Head(s)) = k THEN 1 + RunLen(Tail(s), k) ELSE 0

\* LooseVersion.parse: split on component_re (\d+ | [a-z]+ | \.), drop the
\* empty pieces and the dots, turn the digit runs into integers
RECURSIVE LooseComponents(_)
LooseComponents(s) ==
    IF s = <<>> THEN <<>>
    ELSE LET k == CharClass(Head(s))
         IN  IF k = "dot" THEN LooseComponents(Tail(s))
             ELSE LET n == RunLen(s, k)
                      tok == Take(s, n)
                  IN  <<IF k = "digit" THEN PyInt(StrToInt(tok)) ELSE PyStr(tok)>>
                      \o LooseComponents(Drop(s, n))

\* LooseVersion(vstring)
LooseVersion(v) ==
    IF v.t # "str" THEN Raise("TypeError")
    ELSE [t |-> "LooseVersion", vstring |-> v.s, version |-> LooseComponents(v.s)]

----------------------------------------------------------------------------
(* UnknownVersion                                                          *)

UnknownInstance(i) == [t |-> "UnknownVersion", id |-> i]

\* ExternalVersions.UNKNOWN, the one instance the class creates
UNKNOWN == UnknownInstance(0)


\* the class defines __str__ only for the sentinel: str(UNKNOWN)
UnknownVersion__str__(self) == <<"U", "N", "K", "N", "O", "W", "N">>

\* a bug: an __eq__ that answers False for another object
UnknownVersion__eq__ReturnsFalse(self, other) == PyBool(other = self)

\* UnknownVersion.__eq__: True for the very same object, TypeError otherwise
UnknownVersion__eq__(self, other) ==
    IF other = self THEN PyBool(TRUE)
    ELSE Raise("TypeError")

IsUnknownVersion(v) == v.t = "UnknownVersion"

\* What x.__op__(y) gives for an UnknownVersion x.  The class body defines
\* __eq__ alone; __ne__ is object's, which negates __eq__; the ordering
\* methods are object's, which return NotImplemented.
UnknownVersionMethod(op, self, other) ==
    CASE op = "__eq__" -> UnknownVersion__eq__(self, other)
      [] op = "__ne__" ->
            LET e == UnknownVersion__eq__(self, other)
            IN  IF e.t = "bool" THEN PyBool(~e.b) ELSE e
      [] OTHER -> NotImplemented

\* What x.__op__(y) gives when x is not an UnknownVersion and y is one:
\* distutils' Version._cmp and the builtin types do not know the class
ForeignMethod(op, x, other) == NotImplemented

Method(op, x, y) ==
    IF IsUnknownVersion(x) THEN UnknownVersionMethod(op, x, y)
    ELSE ForeignMethod(op, x, y)

Dunder(op) ==
    CASE op = "==" -> "__eq__"
      [] op = "!=" -> "__ne__"
      [] op = "<" -> "__lt__"
      [] op = ">" -> "__gt__"

Reflected(op) ==
    CASE op = "==" -> "=="
      [] op = "!=" -> "!="
      [] op = "<" -> ">"
      [] op = ">" -> "<"

\* The interpreter's evaluation of  a op b : the left operand's method, then
\* the right operand's reflected method, then identity for == and !=, and
\* TypeError for an ordering nobody implements
RichCompare(op, a, b) ==
    LET first == Method(Dunder(op), a, b)
    IN  IF first.t # "NotImplemented" THEN first
        ELSE LET second == Method(Dunder(Reflected(op)), b, a)
             IN  IF second.t # "NotImplemented" THEN second
                 ELSE CASE op = "==" -> PyBool(a = b)
                        [] op = "!=" -> PyBool(a # b)
                        [] OTHER -> Raise("TypeError")

----------------------------------------------------------------------------
(* ExternalVersions._deduce_version                                        *)

\* a module handle: its __name__ and the version attributes it carries
Module(name, attrs) == [t |-> "module", __name__ |-> name, attrs |-> attrs]

NoAttrs == [a \in {} |-> PyNone]
Dunder1(v) == [a \in {"__version__"} |-> v]
Plain1(v) == [a \in {"version"} |-> v]
Both(d, v) == [a \in {"__version__", "version"} |-> IF a = "__version__" THEN d ELSE v]

VersionAttrs == <<"__version__", "version">>

\* a bug: the loop goes on after an attribute with a falsy value
VersionAttributeFirstTruthy(module) ==
    LET present == {i \in 1..Len(VersionAttrs) :
                       /\ VersionAttrs[i] \in DOMAIN module.attrs
                       /\ Truthy(module.attrs[VersionAttrs[i]])}
    IN  IF present = {} THEN PyNone
        ELSE module.attrs[VersionAttrs[CHOOSE i \in present : \A j \in present : i <= j]]

\* the loop over ('__version__', 'version'): the first attribute present
VersionAttribute(module) ==
    LET present == {i \in 1..Len(VersionAttrs) : VersionAttrs[i] \in DOMAIN module.attrs}
    IN  IF present = {} THEN PyNone
        ELSE module.attrs[VersionAttrs[CHOOSE i \in present : \A j \in present : i <= j]]

\* a bug: the parts joined without the dot
SequenceToStringNoDot(version) ==
    IF version.t = "tuple" \/ version.t = "list"
    THEN PyStr(JoinStr(version.items, <<>>))
    ELSE version

\* a tuple or a list becomes ".".join(str(x) for x in version)
SequenceToString(version) ==
    IF version.t = "tuple" \/ version.t = "list"
    THEN PyStr(JoinStr(version.items, <<".">>))
    ELSE version

\* a bug: no alias for citeproc
DistributionNameNoAlias(modname) == modname

\* {'citeproc': 'citeproc-py'}.get(modname, modname)
DistributionName(modname) ==
    IF modname = "citeproc" THEN "citeproc-py" ELSE modname

\* the distribution names metadata_version is called with
MetadataQueries(module) ==
    IF ~Truthy(SequenceToString(VersionAttribute(module)))
    THEN {DistributionName(module.__name__)}
    ELSE {}

\* a bug: the exception of metadata_version is not caught
MetadataFallbackUncaught(module, version, metadata_version) ==
    IF ~Truthy(version)
    THEN metadata_version[IF module.__name__ = "citeproc" THEN "citeproc-py"
                          ELSE module.__name__]
    ELSE version

\* if not version: try metadata_version(...), keep version on any Exception
MetadataFallback(module, version, metadata_version) ==
    IF ~Truthy(version)
    THEN LET found == metadata_version[DistributionName(module.__name__)]
         IN  IF IsRaise(found) THEN version ELSE found
    ELSE version

\* a bug: a string the strict grammar rejects is given up on
StrictOrUnknown(version, strict) ==
    IF IsRaise(strict) /\ strict.exc = "ValueError" THEN UNKNOWN
    ELSE strict

\* lines 79-83: the StrictVersion, or the LooseVersion when the constructor
\* raised ValueError; any other exception leaves the function
StrictOrLoose(version, strict) ==
    IF IsRaise(strict) /\ strict.exc = "ValueError" THEN LooseVersion(version)
    ELSE strict

\* a bug: only None counts as no version
ParseVersionUnlessNone(version) ==
    IF version # PyNone THEN StrictOrLoose(version, StrictVersion(version)) ELSE UNKNOWN

\* if version: StrictVersion, LooseVersion on ValueError; else UNKNOWN
ParseVersion(version) ==
    IF Truthy(version) THEN StrictOrLoose(version, StrictVersion(version))
    ELSE UNKNOWN

_deduce_version(module, metadata_version) ==
    ParseVersion(
        MetadataFallback(module,
                         SequenceToString(VersionAttribute(module)),
                         metadata_version))

----------------------------------------------------------------------------
(* The inputs the calls are applied to                                     *)

VersionAlphabet == {"0", "1", ".", "b", "-"}

Strings(n) == UNION {[1..k -> VersionAlphabet] : k \in 0..n}

Str142 == <<"1", ".", "4", ".", "2">>
Str14b1 == <<"1", ".", "4", "b", "1">>
Str100 == <<"1", ".", "0", ".", "0">>
StrBeta == <<"2", "0", "2", "1", ".", "0", "8", "-", "b", "e", "t", "a">>

ExampleStrings == {Str142, Str14b1, Str100, StrBeta}

PartVals == {PyInt(i) : i \in 0..MaxPart} \cup {PyStr(<<>>), PyStr(<<"1", "b">>)}

Parts(n) == UNION {[1..k -> PartVals] : k \in 0..n}

Tuple142 == <<PyInt(1), PyInt(4), PyInt(2)>>

\* what a module may hold in __version__ or version
AttrVals ==
    {PyNone, PyInt(0), PyInt(1), PyObject}
    \cup {PyStr(s) : s \in Strings(MaxStrLen) \cup ExampleStrings}
    \cup {PyTuple(xs) : xs \in Parts(MaxParts) \cup {Tuple142}}
    \cup {PyList(xs) : xs \in Parts(MaxParts) \cup {Tuple142}}

\* the values tried where both attributes are present
PairVals == {PyNone, PyStr(<<>>), PyStr(Str142), PyTuple(<<>>), PyStr(StrBeta)}

AttrConfigs ==
    {NoAttrs}
    \cup {Dunder1(v) : v \in AttrVals}
    \cup {Plain1(v) : v \in AttrVals}
    \cup {Both(d, v) : d \in PairVals, v \in PairVals}

\* the configurations with nothing usable in the attribute looked at
EmptyConfigs ==
    {NoAttrs}
    \cup {Dunder1(v) : v \in {PyNone, PyStr(<<>>), PyTuple(<<>>), PyList(<<>>), PyInt(0)}}
    \cup {Plain1(v) : v \in {PyNone, PyStr(<<>>)}}
    \cup {Both(PyStr(<<>>), PyStr(Str142))}

ModNames == {"b", "b.sub", "citeproc"}
DistNames == ModNames \cup {"citeproc-py"}

\* what metadata_version(name) may do: raise, or return the Version field
MetaOutcomes ==
    {Raise("PackageNotFoundError"), PyNone, PyStr(Str14b1), PyStr(StrBeta)}

NoMetadata == [d \in DistNames |-> Raise("PackageNotFoundError")]
OnlyFor(d0, v) == [d \in DistNames |-> IF d = d0 THEN v ELSE Raise("PackageNotFoundError")]

\* metadata capabilities: failing everywhere, or answering for one name
Metadatas ==
    {NoMetadata}
    \cup {OnlyFor(d, v) : d \in DistNames, v \in MetaOutcomes \cup {PyStr(<<>>)}}

BasicMetadatas == {NoMetadata, OnlyFor("b", PyStr(Str14b1))}

DeduceInputs ==
    {<<Module(n, a), md>> : n \in {"b", "citeproc"}, a \in AttrConfigs, md \in BasicMetadatas}
    \cup {<<Module(n, a), md>> : n \in {"b", "citeproc"}, a \in EmptyConfigs, md \in Metadatas}

\* operands of a comparison with the sentinel
CompareVals ==
    {UNKNOWN, UnknownInstance(1), PyNone, PyStr(Str142), PyInt(0),
     StrictVersion(PyStr(Str142)), LooseVersion(PyStr(StrBeta))}

CompareOps == {"==", "!=", "<", ">"}

----------------------------------------------------------------------------
(* The state machine                                                       *)

EmptyMap == [n \in {} |-> PyNone]

\* the caller has not read the versions property
NoSnapshot == [t |-> "none"]

\* no call is in progress in another thread
NoThreads == <<>>

\* ExternalVersions.__init__, in a process that has loaded nothing of interest
Init ==
    /\ _versions = EmptyMap
    /\ sys_modules = EmptyMap
    /\ lookedUp = {}
    /\ called = [op |-> "none"]
    /\ snapshot = NoSnapshot
    /\ threads = NoThreads

\* the module __import__(name) returns is the top-level package of a dotted name
TopLevel(name) == IF name = "b.sub" THEN "b" ELSE name

\* the attributes of the modules the registry is exercised with
RegistryConfigs == {NoAttrs, Dunder1(PyStr(Str142)), Plain1(PyObject)}

RegistryMetadatas == {NoMetadata, OnlyFor("citeproc-py", PyStr(Str14b1))}

\* what __import__(name) may do when it is called: fail to find the module,
\* fail in the module's own code, or load the installed module
NotCalled == [t |-> "not called"]
Loads(attrs) == [t |-> "loads", attrs |-> attrs]
ImportOutcomes ==
    {Raise("ImportError"), Raise("RuntimeError")} \cup {Loads(a) : a \in RegistryConfigs}

\* sys.modules after a successful import of name: the top-level package and
\* the module itself are loaded, a module already loaded is kept
AfterImport(loaded, name, attrs) ==
    [n \in DOMAIN loaded \cup {name, TopLevel(name)} |->
        IF n \in DOMAIN loaded THEN loaded[n]
        ELSE IF n = TopLevel(name) THEN Module(n, attrs)
        ELSE Module(n, NoAttrs)]

\* __import__(modname): the handle returned, or the exception raised
Import(loaded, modname, outcome) ==
    IF IsRaise(outcome) THEN outcome
    ELSE AfterImport(loaded, modname, outcome.attrs)[TopLevel(modname)]

\* the arguments of __getitem__: a name is PyName(n), a handle is a Module
PyName(n) == [t |-> "str", name |-> n]
IsName(arg) == arg.t = "str"

\* lines 90-94: the name the call is about
ModName(arg) == IF IsName(arg) THEN arg.name ELSE arg.__name__

\* a bug: the cache is never consulted
NeverCached(versions, modname) == FALSE

\* line 96: is the name cached
Cached(versions, modname) == modname \in DOMAIN versions

\* a bug: sys.modules is not consulted before importing
NeverLoaded(loaded, modname) == TRUE

\* line 98: modname not in sys.modules
NotLoaded(loaded, modname) == modname \notin DOMAIN loaded

\* lines 96-98: must the name be imported
NeedsImport(versions, loaded, arg) ==
    /\ ~Cached(versions, ModName(arg))
    /\ IsName(arg)
    /\ NotLoaded(loaded, ModName(arg))

\* lines 97-104: the handle to resolve, or the exception of the import
ObtainModule(loaded, arg, outcome) ==
    IF ~IsName(arg) THEN arg
    ELSE IF NotLoaded(loaded, arg.name) THEN Import(loaded, arg.name, outcome)
    ELSE loaded[arg.name]

\* a bug: the assignment replaces the whole cache
StoreAlone(versions, modname, module, value) == [n \in {modname} |-> value]

\* a bug: the entry is keyed by the name the module reports
StoreByReportedName(versions, modname, module, value) ==
    [n \in DOMAIN versions \cup {module.__name__} |->
        IF n = module.__name__ THEN value ELSE versions[n]]

\* line 106: the assignment to self._versions[modname]
Store(versions, modname, module, value) ==
    [n \in DOMAIN versions \cup {modname} |-> IF n = modname THEN value ELSE versions[n]]

\* line 108: self._versions.get(modname, self.UNKNOWN)
Get(versions, modname) ==
    IF modname \in DOMAIN versions THEN versions[modname] ELSE UNKNOWN

\* What a call of __getitem__ leaves and returns: the cache, sys.modules, the
\* returned value (ret), and which capabilities it used on the way
Outcome(versions, loaded, imported, module, deduced, ret) ==
    [versions |-> versions, loaded |-> loaded, imported |-> imported,
     obtained |-> deduced, deduced |-> deduced,
     queried |-> IF deduced THEN MetadataQueries(module) ELSE {},
     module |-> IF deduced THEN module ELSE NotCalled,
     ret |-> ret]

\* a bug: the value is not stored, the final read falls back on its default
ResolvedNotStored(versions, loaded, modname, module, imported, value) ==
    Outcome(versions, loaded, imported, module, TRUE,
            IF IsRaise(value) THEN value ELSE Get(versions, modname))

\* lines 106-108 with the value _deduce_version gave: an exception leaves the
\* call before the assignment, a value is stored and read back
Resolved(versions, loaded, modname, module, imported, value) ==
    IF IsRaise(value)
    THEN Outcome(versions, loaded, imported, module, TRUE, value)
    ELSE Outcome(Store(versions, modname, module, value), loaded, imported, module, TRUE,
                 Get(Store(versions, modname, module, value), modname))

\* lines 97-106 with the handle obtained: ImportError returns None, another
\* exception of the import leaves the call, a handle is resolved
Miss(versions, loaded, arg, outcome, md, imported, module) ==
    IF IsRaise(module)
    THEN Outcome(versions, loaded, imported, module, FALSE,
                 IF module.exc = "ImportError" THEN PyNone ELSE module)
    ELSE Resolved(versions,
                  IF imported THEN AfterImport(loaded, ModName(arg), outcome.attrs)
                  ELSE loaded,
                  ModName(arg), module, imported, _deduce_version(module, md))

\* ExternalVersions.__getitem__
__getitem__(versions, loaded, arg, outcome, md) ==
    IF Cached(versions, ModName(arg))
    THEN Outcome(versions, loaded, FALSE, NotCalled, FALSE, Get(versions, ModName(arg)))
    ELSE Miss(versions, loaded, arg, outcome, md,
              NeedsImport(versions, loaded, arg),
              ObtainModule(loaded, arg, outcome))

\* a bug: a name cached as UNKNOWN counts as absent
__contains__Known(versions, item) == item \in DOMAIN versions /\ versions[item] # UNKNOWN

\* ExternalVersions.__contains__
__contains__(versions, item) == item \in DOMAIN versions

LookupArgs ==
    {PyName(n) : n \in ModNames} \cup {Module(n, a) : n \in ModNames, a \in RegistryConfigs}

\* the state and the history after a call that did r
AfterLookup(arg, outcome, md, r) ==
    /\ _versions' = r.versions
    /\ sys_modules' = r.loaded
    /\ lookedUp' = IF r.obtained THEN lookedUp \cup {ModName(arg)} ELSE lookedUp
    /\ called' = [op |-> "__getitem__",
                  kind |-> IF IsName(arg) THEN "name" ELSE "handle",
                  modname |-> ModName(arg),
                  imported |-> r.imported, import |-> outcome,
                  deduced |-> r.deduced, queried |-> r.queried,
                  module |-> r.module,
                  md |-> md, ret |-> r.ret]
    /\ UNCHANGED <<snapshot, threads>>

\* one call of external_versions[arg]; the import and metadata capabilities
\* behave in any of their ways when the call reaches them
Lookup(arg) ==
    \E outcome \in IF NeedsImport(_versions, sys_modules, arg)
                   THEN ImportOutcomes ELSE {NotCalled} :
    \E md \in IF Cached(_versions, ModName(arg)) \/ IsRaise(outcome)
              THEN {NoMetadata} ELSE RegistryMetadatas :
        AfterLookup(arg, outcome, md,
                    __getitem__(_versions, sys_modules, arg, outcome, md))

\* one call of  item in external_versions
Contains(item) ==
    /\ called' = [op |-> "__contains__", item |-> item,
                  ret |-> PyBool(__contains__(_versions, item))]
    /\ UNCHANGED <<_versions, sys_modules, lookedUp, snapshot, threads>>

\* other code of the process imports or reloads a module: its version
\* attributes may differ from those seen before
EnvLoad(name, attrs) ==
    /\ sys_modules' = [n \in DOMAIN sys_modules \cup {name, TopLevel(name)} |->
                          IF n = name THEN Module(n, attrs)
                          ELSE IF n \in DOMAIN sys_modules THEN sys_modules[n]
                          ELSE Module(n, NoAttrs)]
    /\ called' = [op |-> "env"]
    /\ UNCHANGED <<_versions, lookedUp, snapshot, threads>>

Next ==
    \/ \E arg \in LookupArgs : Lookup(arg)
    \/ \E item \in ModNames : Contains(item)
    \/ \E name \in ModNames, attrs \in RegistryConfigs : EnvLoad(name, attrs)

\* the registry in a process whose import and metadata capabilities and
\* loaded modules behave and change in any way
Spec == Init /\ [][Next]_vars

----------------------------------------------------------------------------
(* The views of the cache: keys, versions, dumps                           *)

\* ExternalVersions.keys: the names cached
keys(self_versions) == DOMAIN self_versions

\* a bug: the property hands out the cache itself
ExternalVersions_versions_NoCopy(self_versions) == [t |-> "alias"]

\* ExternalVersions.versions: self._versions.copy(), a new dict with the same
\* items; "alias" would be a reference to the very dict the registry holds
ExternalVersions_versions(self_versions) == [t |-> "dict", map |-> self_versions]

\* the items of the dict a reference obtained from the property denotes
Deref(ref, self_versions) == IF ref.t = "alias" THEN self_versions ELSE ref.map

\* d[k] = v  and  del d[k]  on a dict
DictSet(d, k, v) == [n \in DOMAIN d \cup {k} |-> IF n = k THEN v ELSE d[n]]
DictDel(d, k) == [n \in DOMAIN d \ {k} |-> d[n]]

\* the characters of a module name
NameChars(n) ==
    CASE n = "a" -> <<"a">>
      [] n = "b" -> <<"b">>
      [] n = "b.sub" -> <<"b", ".", "s", "u", "b">>
      [] n = "citeproc" -> <<"c", "i", "t", "e", "p", "r", "o", "c">>

\* the characters of names in the order of their code points
CodePointOrder ==
    <<".", "0", "1", "2", "3", "4", "5", "6", "7", "8", "9",
      "a", "b", "c", "d", "e", "f", "g", "h", "i", "j", "k", "l", "m",
      "n", "o", "p", "q", "r", "s", "t", "u", "v", "w", "x", "y", "z">>

Ord(c) == CHOOSE i \in 1..Len(CodePointOrder) : CodePointOrder[i] = c

\* a < b for two strings
RECURSIVE StrLess(_, _)
StrLess(a, b) ==
    IF b = <<>> THEN FALSE
    ELSE IF a = <<>> THEN TRUE
    ELSE IF Head(a) # Head(b) THEN Ord(Head(a)) < Ord(Head(b))
    ELSE StrLess(Tail(a), Tail(b))

\* the least of a non-empty set of names
Least(names) ==
    CHOOSE m \in names : \A n \in names \ {m} : StrLess(NameChars(m), NameChars(n))

\* a bug: the names are listed in descending order
RECURSIVE sortedDescending(_)
sortedDescending(names) ==
    IF names = {} THEN <<>>
    ELSE sortedDescending(names \ {Least(names)}) \o <<Least(names)>>

\* sorted(self._versions)
RECURSIVE sorted(_)
sorted(names) ==
    IF names = {} THEN <<>>
    ELSE <<Least(names)>> \o sorted(names \ {Least(names)})

\* str(v) of a StrictVersion: the patch number is left out when it is 0
StrictVersion__str__(v) ==
    (IF v.version[3] = 0
     THEN IntToStr(v.version[1]) \o <<".">> \o IntToStr(v.version[2])
     ELSE IntToStr(v.version[1]) \o <<".">> \o IntToStr(v.version[2])
          \o <<".">> \o IntToStr(v.version[3]))
    \o (IF v.prerelease = <<>> THEN <<>>
        ELSE <<v.prerelease[1]>> \o IntToStr(v.prerelease[2]))

\* str(v) of a LooseVersion: the string it was made from
LooseVersion__str__(v) == v.vstring

\* str(v) of a cached value
Str(v) ==
    CASE v.t = "StrictVersion" -> StrictVersion__str__(v)
      [] v.t = "LooseVersion" -> LooseVersion__str__(v)
      [] v.t = "UnknownVersion" -> UnknownVersion__str__(v)

\* "{}={}".format(k, self._versions[k])
Item(self_versions, k) == PyStr(NameChars(k) \o <<"=">> \o Str(self_versions[k]))

\* line 137: the items for the names in order
Items(self_versions, names) == [i \in 1..Len(names) |-> Item(self_versions, names[i])]

\* ' ' if indent is True else indent
Indent_(indent) == IF indent = PyBool(TRUE) THEN <<" ">> ELSE indent.s

\* a bug: the indented form does not end with the line separator
dumpsIndentedNoEnd(items, indent, preamble, linesep) ==
    preamble \o JoinStr(<<PyStr(<<>>)>> \o items, linesep \o Indent_(indent))

\* lines 139-141
dumpsIndented(items, indent, preamble, linesep) ==
    preamble \o JoinStr(<<PyStr(<<>>)>> \o items, linesep \o Indent_(indent)) \o linesep

\* lines 142-143
dumpsOneLine(items, preamble) == preamble \o <<" ">> \o JoinStr(items, <<" ">>)

\* ExternalVersions.dumps(indent, preamble), on a platform with that linesep
dumps(self_versions, indent, preamble, linesep) ==
    IF Truthy(indent)
    THEN dumpsIndented(Items(self_versions, sorted(DOMAIN self_versions)),
                       indent, preamble, linesep)
    ELSE dumpsOneLine(Items(self_versions, sorted(DOMAIN self_versions)), preamble)

\* the arguments dumps is called with, and the platform's os.linesep
DumpIndents == {PyBool(FALSE), PyBool(TRUE), PyStr(<<>>), PyStr(<<" ", " ">>)}
PreambleVersions == <<"V", "e", "r", "s", "i", "o", "n", "s", ":">>
DumpPreambles == {PreambleVersions, <<>>}
Lineseps == {<<"\n">>, <<"\r", "\n">>}

\* the lookups the views are exercised after
ViewNames == {"b", "citeproc"}
ViewArgs ==
    {PyName(n) : n \in ViewNames}
    \cup {Module(n, a) : n \in ViewNames, a \in {NoAttrs, Dunder1(PyStr(Str142))}}

\* the values a caller puts into the mapping it got
CallerValues == {StrictVersion(PyStr(Str100))}

\* one call of external_versions.keys()
Keys ==
    /\ called' = [op |-> "keys", ret |-> keys(_versions)]
    /\ UNCHANGED <<_versions, sys_modules, lookedUp, snapshot, threads>>

\* one read of external_versions.versions; the caller keeps what it got
Versions ==
    /\ snapshot' = ExternalVersions_versions(_versions)
    /\ called' = [op |-> "versions"]
    /\ UNCHANGED <<_versions, sys_modules, lookedUp, threads>>

\* the caller's dict has become d: a dict of its own is the caller's alone,
\* the registry's dict is the cache
Mutated(d) ==
    /\ snapshot' = IF snapshot.t = "alias" THEN snapshot ELSE [t |-> "dict", map |-> d]
    /\ _versions' = IF snapshot.t = "alias" THEN d ELSE _versions
    /\ UNCHANGED <<sys_modules, lookedUp, threads>>

\* the caller adds or replaces a key of the mapping it got
SnapshotSet(k, v) ==
    /\ snapshot.t # "none"
    /\ called' = [op |-> "mutate", stmt |-> "set", key |-> k]
    /\ Mutated(DictSet(Deref(snapshot, _versions), k, v))

\* the caller removes a key of the mapping it got
SnapshotDel(k) ==
    /\ snapshot.t # "none"
    /\ k \in DOMAIN Deref(snapshot, _versions)
    /\ called' = [op |-> "mutate", stmt |-> "del", key |-> k]
    /\ Mutated(DictDel(Deref(snapshot, _versions), k))

\* one call of external_versions.dumps(indent, preamble)
Dumps(indent, preamble, linesep) ==
    /\ called' = [op |-> "dumps", indent |-> indent, preamble |-> preamble,
                  linesep |-> linesep,
                  ret |-> PyStr(dumps(_versions, indent, preamble, linesep))]
    /\ UNCHANGED <<_versions, sys_modules, lookedUp, snapshot, threads>>

NextViews ==
    \/ \E arg \in ViewArgs : Lookup(arg)
    \/ \E item \in ModNames : Contains(item)
    \/ Keys
    \/ Versions
    \/ \E k \in ModNames, v \in CallerValues : SnapshotSet(k, v)
    \/ \E k \in ModNames : SnapshotDel(k)
    \/ \E indent \in DumpIndents : Dumps(indent, PreambleVersions, <<"\n">>)

\* the registry used through lookups and its views by a caller that keeps
\* and changes the mapping the versions property gave it
SpecViews == Init /\ [][NextViews]_vars

\* a call of a pure function about to be made, with its arguments
PendingDeduce(module, md) == [op |-> "pending", fn |-> "_deduce_version", module |-> module, md |-> md]
PendingCompare(op, a, b) == [op |-> "pending", fn |-> "compare", cmp |-> op, left |-> a, right |-> b]

PendingDumps(indent, preamble, linesep) ==
    [op |-> "pending", fn |-> "dumps", indent |-> indent, preamble |-> preamble,
     linesep |-> linesep]

\* the caches dumps is applied to: what lookups by handle of modules with
\* these names and versions leave
DumpNames == {"a", "b", "b.sub", "citeproc"}
DumpValues ==
    {UNKNOWN, StrictVersion(PyStr(Str100)), StrictVersion(PyStr(Str142)),
     StrictVersion(PyStr(Str14b1)), LooseVersion(PyStr(StrBeta))}
DumpCaches == UNION {[names -> DumpValues] : names \in SUBSET DumpNames}

InitPure ==
    /\ sys_modules = EmptyMap
    /\ lookedUp = {}
    /\ snapshot = NoSnapshot
    /\ threads = NoThreads
    /\ \/ /\ _versions = EmptyMap
          /\ \E in \in DeduceInputs : called = PendingDeduce(in[1], in[2])
       \/ /\ _versions = EmptyMap
          /\ \E op \in CompareOps, a \in CompareVals, b \in CompareVals :
                /\ IsUnknownVersion(a) \/ IsUnknownVersion(b)
                /\ called = PendingCompare(op, a, b)
       \/ /\ _versions \in DumpCaches
          /\ \E indent \in DumpIndents, preamble \in DumpPreambles, linesep \in Lineseps :
                called = PendingDumps(indent, preamble, linesep)

\* a direct call of the classmethod
DeduceVersion ==
    /\ called.op = "pending" /\ called.fn = "_deduce_version"
    /\ called' = [op |-> "_deduce_version", module |-> called.module, md |-> called.md,
                  queried |-> MetadataQueries(called.module),
                  ret |-> _deduce_version(called.module, called.md)]
    /\ UNCHANGED <<_versions, sys_modules, lookedUp, snapshot, threads>>

\* the caller compares two values, one of them an UnknownVersion
Compare ==
    /\ called.op = "pending" /\ called.fn = "compare"
    /\ called' = [op |-> "compare", cmp |-> called.cmp,
                  left |-> called.left, right |-> called.right,
                  ret |-> RichCompare(called.cmp, called.left, called.right)]
    /\ UNCHANGED <<_versions, sys_modules, lookedUp, snapshot, threads>>

\* a call of dumps on a registry whose cache is filled
DumpsFilled ==
    /\ called.op = "pending" /\ called.fn = "dumps"
    /\ Dumps(called.indent, called.preamble, called.linesep)

NextPure == DeduceVersion \/ Compare \/ DumpsFilled

\* the pure functions applied to every input of the bounded sets
SpecPure == InitPure /\ [][NextPure]_vars

----------------------------------------------------------------------------
(* __getitem__ called by threads at the same time.  Nothing in the class   *)
(* locks: a thread may be suspended between any two statements, so a call  *)
(* is a sequence of steps, one per statement that reads or writes the      *)
(* cache or sys.modules.  The name looked up, the behaviour of __import__  *)
(* and the metadata are those of the run (field `called`) and stay the     *)
(* same for its whole length.                                              *)

Threads == {"t1", "t2"}

\* a call about to execute line 96
AtStart == [pc |-> "96", missed |-> FALSE, module |-> NotCalled,
            deduced |-> FALSE, ret |-> NotCalled]

\* the threads look up a name that is not cached and is either loaded
\* already or still to be imported
InitConc ==
    /\ _versions = EmptyMap
    /\ lookedUp = {}
    /\ snapshot = NoSnapshot
    /\ threads = [t \in Threads |-> AtStart]
    /\ \E n \in ModNames, md \in RegistryMetadatas :
          \/ /\ sys_modules = EmptyMap
             /\ \E outcome \in ImportOutcomes :
                   called = [op |-> "threads", modname |-> n, import |-> outcome, md |-> md]
          \/ \E attrs \in RegistryConfigs :
                /\ sys_modules = AfterImport([m \in {n} |-> Module(n, attrs)], n, NoAttrs)
                /\ called = [op |-> "threads", modname |-> n, import |-> NotCalled, md |-> md]

\* thread t goes on as th
Goes(t, th) ==
    /\ threads' = [threads EXCEPT ![t] = th]
    /\ UNCHANGED <<called, snapshot>>

\* line 96: if modname not in self._versions
Line96(t) ==
    /\ threads[t].pc = "96"
    /\ Goes(t, [threads[t] EXCEPT
                   !.pc = IF Cached(_versions, called.modname) THEN "108" ELSE "98",
                   !.missed = ~Cached(_versions, called.modname)])
    /\ UNCHANGED <<_versions, sys_modules, lookedUp>>

\* lines 97-98: a name was given; if modname not in sys.modules
Line98(t) ==
    /\ threads[t].pc = "98"
    /\ Goes(t, [threads[t] EXCEPT
                   !.pc = IF NotLoaded(sys_modules, called.modname) THEN "100" ELSE "104"])
    /\ UNCHANGED <<_versions, sys_modules, lookedUp>>

\* the thread after __import__ gave m: ImportError returns None, another
\* exception leaves the call, a handle goes on to line 106
Imported(th, m) ==
    IF IsRaise(m)
    THEN [th EXCEPT !.pc = "done",
                    !.ret = IF m.exc = "ImportError" THEN PyNone ELSE m]
    ELSE [th EXCEPT !.pc = "106", !.module = m]

\* lines 99-102: module = __import__(modname)
Line100(t) ==
    /\ threads[t].pc = "100"
    /\ Goes(t, Imported(threads[t], Import(sys_modules, called.modname, called.import)))
    /\ sys_modules' = IF IsRaise(called.import) THEN sys_modules
                      ELSE AfterImport(sys_modules, called.modname, called.import.attrs)
    /\ UNCHANGED <<_versions, lookedUp>>

\* line 104: module = sys.modules[modname]
Line104(t) ==
    /\ threads[t].pc = "104"
    /\ Goes(t, [threads[t] EXCEPT !.pc = "106", !.module = sys_modules[called.modname]])
    /\ UNCHANGED <<_versions, sys_modules, lookedUp>>

\* the thread after _deduce_version gave value
Deduced(th, value) ==
    IF IsRaise(value)
    THEN [th EXCEPT !.pc = "done", !.deduced = TRUE, !.ret = value]
    ELSE [th EXCEPT !.pc = "108", !.deduced = TRUE]

\* line 106: self._versions[modname] = self._deduce_version(module); the
\* resolution reads only the thread's own handle, so when the store takes
\* place relative to the other thread is all that matters
Line106(t) ==
    /\ threads[t].pc = "106"
    /\ Goes(t, Deduced(threads[t], _deduce_version(threads[t].module, called.md)))
    /\ _versions' = IF IsRaise(_deduce_version(threads[t].module, called.md))
                    THEN _versions
                    ELSE Store(_versions, called.modname, threads[t].module,
                               _deduce_version(threads[t].module, called.md))
    /\ lookedUp' = lookedUp \cup {called.modname}
    /\ UNCHANGED sys_modules

\* line 108: return self._versions.get(modname, self.UNKNOWN)
Line108(t) ==
    /\ threads[t].pc = "108"
    /\ Goes(t, [threads[t] EXCEPT !.pc = "done", !.ret = Get(_versions, called.modname)])
    /\ UNCHANGED <<_versions, sys_modules, lookedUp>>

NextConc ==
    \E t \in Threads :
        \/ Line96(t)
        \/ Line98(t)
        \/ Line100(t)
        \/ Line104(t)
        \/ Line106(t)
        \/ Line108(t)

\* two threads calling external_versions[name] for the same uncached name
SpecConc == InitConc /\ [][NextConc]_vars

----------------------------------------------------------------------------
(* Properties                                                              *)

IsLookup(c) == c.op = "__getitem__"
IsDeduce(c) == c.op = "_deduce_version"
IsCompare(c) == c.op = "compare"

\* the value a module's version attribute resolves from, before metadata
AttributeString(module) == SequenceToString(VersionAttribute(module))

\* C1: once a name has an entry, every later lookup of that name, by name or
\* by a handle reporting that name, returns the entry as it is and calls
\* neither __import__ nor metadata_version nor _deduce_version
C1_CachedLookupRunsNothing ==
    [][\A n \in ModNames :
          (n \in DOMAIN _versions /\ IsLookup(called') /\ called'.modname = n)
          => /\ called'.ret = _versions[n]
             /\ ~called'.imported
             /\ ~called'.deduced
             /\ called'.queried = {}
             /\ _versions' = _versions]_vars

\* a lookup by name served from the cache although the loaded module would
\* now resolve to another value
C1_Witness ==
    /\ IsLookup(called) /\ called.kind = "name" /\ ~called.deduced
    /\ TopLevel(called.modname) = called.modname
    /\ called.modname \in DOMAIN _versions
    /\ called.modname \in DOMAIN sys_modules
    /\ called.ret = _versions[called.modname]
    /\ \A md \in RegistryMetadatas :
          _deduce_version(sys_modules[called.modname], md) # _versions[called.modname]

\* C2: a lookup whose import raises ImportError returns None and leaves the
\* cache as it was, the name stays uncached, and the next lookup of the name
\* imports again and caches the result if that import succeeds
C2_FailedImportIsRetried ==
    [][/\ (IsLookup(called') /\ called'.imported /\ called'.import = Raise("ImportError"))
          => /\ called'.ret = PyNone
             /\ _versions' = _versions
             /\ ~__contains__(_versions', called'.modname)
       /\ (/\ IsLookup(called) /\ called.imported /\ called.import = Raise("ImportError")
           /\ IsLookup(called') /\ called'.kind = "name"
           /\ called'.modname = called.modname)
          => /\ called'.imported
             /\ called'.import.t = "loads"
                => /\ __contains__(_versions', called'.modname)
                   /\ called'.ret = _versions'[called'.modname]]_vars

\* C3: a lookup always returns a StrictVersion, a LooseVersion, UNKNOWN or
\* None, and never raises
C3_LookupNeverRaises ==
    IsLookup(called) =>
        called.ret.t \in {"StrictVersion", "LooseVersion", "UnknownVersion", "None"}

\* C4: an entry, once made, stays under its name with the same value
C4_EntriesAreWriteOnce ==
    [][\A n \in DOMAIN _versions :
          n \in DOMAIN _versions' /\ _versions'[n] = _versions[n]]_vars

\* an UNKNOWN entry survives a lookup made after the module was reloaded
\* with a version that resolves
C4_Witness ==
    /\ IsLookup(called) /\ ~called.deduced
    /\ called.modname \in DOMAIN _versions
    /\ _versions[called.modname] = UNKNOWN
    /\ called.ret = UNKNOWN
    /\ called.modname \in DOMAIN sys_modules
    /\ _deduce_version(sys_modules[called.modname], NoMetadata).t = "StrictVersion"

\* C5: only names that were looked up with a handle obtained are cached, and
\* contains is false for a name never looked up
C5_OnlyLookedUpNamesAreCached ==
    /\ DOMAIN _versions \subseteq lookedUp
    /\ (called.op = "__contains__" /\ called.item \notin lookedUp)
       => called.ret = PyBool(FALSE)

\* contains answers False for a name never looked up while another is cached
C5_Witness ==
    /\ called.op = "__contains__" /\ called.item \notin lookedUp
    /\ called.ret = PyBool(FALSE)
    /\ DOMAIN _versions # {}

\* C6: UNKNOWN == UNKNOWN is True, UNKNOWN == anything else (on either side)
\* raises TypeError, and < and > with UNKNOWN on either side raise TypeError
C6_UnknownComparisons ==
    (IsCompare(called) /\ (called.left = UNKNOWN \/ called.right = UNKNOWN))
    => /\ (called.cmp = "==" /\ called.left = called.right) => called.ret = PyBool(TRUE)
       /\ (called.cmp = "==" /\ called.left # called.right) => called.ret = Raise("TypeError")
       /\ called.cmp \in {"<", ">"} => called.ret = Raise("TypeError")

\* UNKNOWN == StrictVersion("1.4.2") raised TypeError
C6_Witness ==
    /\ IsCompare(called) /\ called.cmp = "==" /\ called.left = UNKNOWN
    /\ called.right = StrictVersion(PyStr(Str142))
    /\ called.ret = Raise("TypeError")

\* the module with the attribute _deduce_version reads replaced by v
WithVersionAttribute(module, v) ==
    [module EXCEPT !.attrs =
        [a \in DOMAIN module.attrs |->
            IF a = "__version__" \/ "__version__" \notin DOMAIN module.attrs THEN v
            ELSE module.attrs[a]]]

\* C7: a tuple or list attribute resolves to what the string of its parts
\* joined by "." resolves to, and (1, 4, 2) to StrictVersion("1.4.2")
C7_SequenceResolvesAsJoinedString ==
    (IsDeduce(called) /\ VersionAttribute(called.module).t \in {"tuple", "list"})
    => /\ called.ret =
            _deduce_version(
                WithVersionAttribute(
                    called.module,
                    PyStr(JoinStr(VersionAttribute(called.module).items, <<".">>))),
                called.md)
       /\ VersionAttribute(called.module).items = Tuple142
          => called.ret = [t |-> "StrictVersion", version |-> <<1, 4, 2>>,
                           prerelease |-> <<>>]

\* __version__ = (1, 4, 2) resolved to the StrictVersion 1.4.2
C7_Witness ==
    /\ IsDeduce(called)
    /\ called.module.attrs = Dunder1(PyTuple(Tuple142))
    /\ called.ret = StrictVersion(PyStr(Str142))

\* the value _deduce_version goes on with at line 78
ObtainedVersion(module, md) ==
    IF Truthy(AttributeString(module)) THEN AttributeString(module)
    ELSE IF IsRaise(md[DistributionName(module.__name__)]) THEN AttributeString(module)
    ELSE md[DistributionName(module.__name__)]

\* C8: a non-empty version string, from an attribute or from the metadata,
\* resolves to a StrictVersion when the strict grammar matches it and to a
\* LooseVersion of that string otherwise, never to UNKNOWN or an exception
C8_StringResolvesStrictOrLoose ==
    (/\ IsDeduce(called)
     /\ ObtainedVersion(called.module, called.md).t = "str"
     /\ ObtainedVersion(called.module, called.md).s # <<>>)
    => IF StrictMatch(ObtainedVersion(called.module, called.md).s).ok
       THEN /\ called.ret.t = "StrictVersion"
            /\ called.ret.version =
                  StrictMatch(ObtainedVersion(called.module, called.md).s).version
            /\ called.ret.prerelease =
                  StrictMatch(ObtainedVersion(called.module, called.md).s).prerelease
       ELSE /\ called.ret.t = "LooseVersion"
            /\ called.ret.vstring = ObtainedVersion(called.module, called.md).s

\* __version__ = "2021.08-beta" resolved to a LooseVersion
C8_Witness ==
    /\ IsDeduce(called)
    /\ called.module.attrs = Dunder1(PyStr(StrBeta))
    /\ called.ret.t = "LooseVersion"
    /\ called.ret.vstring = StrBeta
    /\ called.ret # UNKNOWN

\* C9: with no non-empty version attribute, metadata_version is asked for the
\* module's name, and for citeproc-py when the name is citeproc; a citeproc
\* handle whose metadata answers only for citeproc-py resolves to the parse of
\* that answer
C9_CiteprocIsQueriedAsCiteprocPy ==
    (IsDeduce(called) /\ ~Truthy(AttributeString(called.module)))
    => /\ called.queried = {IF called.module.__name__ = "citeproc" THEN "citeproc-py"
                            ELSE called.module.__name__}
       /\ \A v \in MetaOutcomes :
            (/\ called.module.__name__ = "citeproc"
             /\ v.t = "str"
             /\ called.md = OnlyFor("citeproc-py", v))
            => /\ called.ret = IF StrictMatch(v.s).ok THEN StrictVersion(v)
                               ELSE LooseVersion(v)
               /\ called.ret.t \in {"StrictVersion", "LooseVersion"}

\* a citeproc handle without attributes resolved from citeproc-py's metadata
C9_Witness ==
    /\ IsDeduce(called)
    /\ called.module = Module("citeproc", NoAttrs)
    /\ called.md = OnlyFor("citeproc-py", PyStr(Str14b1))
    /\ called.queried = {"citeproc-py"}
    /\ called.ret = [t |-> "StrictVersion", version |-> <<1, 4, 0>>,
                     prerelease |-> <<"b", 1>>]

C11_SnapshotIsACopy ==
    [][/\ called'.op = "versions"
          => /\ Deref(snapshot', _versions') = _versions
             /\ _versions' = _versions
       /\ called'.op = "mutate"
          => /\ _versions' = _versions
             /\ keys(_versions') = keys(_versions)
             /\ \A n \in ModNames :
                   /\ __contains__(_versions', n) = __contains__(_versions, n)
                   /\ Get(_versions', n) = Get(_versions, n)
             /\ \A indent \in DumpIndents :
                   dumps(_versions', indent, PreambleVersions, <<"\n">>)
                   = dumps(_versions, indent, PreambleVersions, <<"\n">>)]_vars

\* the caller removed from its mapping a name that the cache still holds,
\* and replaced the value of another
C11_Witness ==
    /\ called.op = "mutate" /\ called.stmt = "del"
    /\ snapshot.t = "dict"
    /\ called.key \in DOMAIN _versions
    /\ called.key \notin DOMAIN snapshot.map
    /\ \E n \in DOMAIN _versions \cap DOMAIN snapshot.map : snapshot.map[n] # _versions[n]

\* the calls that only read the cache
IsView(c) == c.op \in {"__contains__", "keys", "versions", "dumps"}

\* C12: contains answers True exactly for the cached names, keys lists them,
\* and a call of contains, keys, versions or dumps leaves the cache, the
\* loaded modules and the set of resolved names as they were
C12_ViewsAreReadOnly ==
    [][IsView(called')
       => /\ _versions' = _versions
          /\ sys_modules' = sys_modules
          /\ lookedUp' = lookedUp
          /\ called'.op = "__contains__"
             => called'.ret = PyBool(called'.item \in DOMAIN _versions)
          /\ called'.op = "keys" => called'.ret = DOMAIN _versions]_vars

\* contains answered True for a name cached as UNKNOWN, while it would
\* answer False for a name that is loaded but was never looked up
C12_Witness ==
    /\ called.op = "__contains__" /\ called.ret = PyBool(TRUE)
    /\ _versions[called.item] = UNKNOWN
    /\ \E n \in DOMAIN sys_modules : n \notin DOMAIN _versions

IsDumps(c) == c.op = "dumps"

\* the entry dumps shows for a cached name
EntryOf(n) == NameChars(n) \o <<"=">> \o Str(_versions[n])

\* the cached names that come before n in ascending order
Before(n) == {m \in DOMAIN _versions : StrLess(NameChars(m), NameChars(n))}

\* the characters taken by the entries of the names, each with one
\* separator of length sep
RECURSIVE EntriesLen(_, _)
EntriesLen(names, sep) ==
    IF names = {} THEN 0
    ELSE LET m == CHOOSE x \in names : TRUE
         IN  Len(EntryOf(m)) + sep + EntriesLen(names \ {m}, sep)

\* the result of dumps with a falsy indent is the preamble, one space, and
\* the entries name=version in ascending order of the names with one space
\* between them
OneLineForm(c) ==
    /\ Len(c.ret.s) = Len(c.preamble) + 1
                      + (IF _versions = EmptyMap THEN 0
                         ELSE EntriesLen(DOMAIN _versions, 1) - 1)
    /\ SubSeq(c.ret.s, 1, Len(c.preamble) + 1) = c.preamble \o <<" ">>
    /\ \A n \in DOMAIN _versions :
          /\ c.ret.s[Len(c.preamble) + 1 + EntriesLen(Before(n), 1)] = " "
          /\ SubSeq(c.ret.s,
                    Len(c.preamble) + 1 + EntriesLen(Before(n), 1) + 1,
                    Len(c.preamble) + 1 + EntriesLen(Before(n), 1) + Len(EntryOf(n)))
             = EntryOf(n)

\* the cache {a: StrictVersion("1.0.0"), b: UNKNOWN}
ExampleCache ==
    [n \in {"a", "b"} |-> IF n = "a" THEN StrictVersion(PyStr(Str100)) ELSE UNKNOWN]

\* "Versions: a=1.0.0 b=UNKNOWN"
ExampleWithPatch ==
    PreambleVersions \o <<" ", "a", "=", "1", ".", "0", ".", "0", " ", "b", "=">>
    \o UnknownVersion__str__(UNKNOWN)

\* "Versions: a=1.0 b=UNKNOWN"
ExampleWithoutPatch ==
    PreambleVersions \o <<" ", "a", "=", "1", ".", "0", " ", "b", "=">>
    \o UnknownVersion__str__(UNKNOWN)

\* C13 as stated: dumps with a falsy indent returns the one-line form, and
\* for the cache {a: StrictVersion("1.0.0"), b: UNKNOWN} and the preamble
\* "Versions:" it returns "Versions: a=1.0.0 b=UNKNOWN"
C13_OneLineDumps_Stated ==
    (IsDumps(called) /\ ~Truthy(called.indent))
    => /\ OneLineForm(called)
       /\ (_versions = ExampleCache /\ called.preamble = PreambleVersions)
          => called.ret.s = ExampleWithPatch

\* C13: dumps with a falsy indent returns the preamble, one space, and the
\* entries name=str(version) in ascending order of the names, separated by
\* single spaces; for the cache {a: StrictVersion("1.0.0"), b: UNKNOWN} and
\* the preamble "Versions:" it returns "Versions: a=1.0 b=UNKNOWN", because
\* the string form of a StrictVersion leaves out a patch number of 0
C13_OneLineDumps ==
    (IsDumps(called) /\ ~Truthy(called.indent))
    => /\ OneLineForm(called)
       /\ (_versions = ExampleCache /\ called.preamble = PreambleVersions)
          => called.ret.s = ExampleWithoutPatch

\* dumps() of the cache {a: StrictVersion("1.0.0"), b: UNKNOWN} returned
C13_Witness ==
    /\ IsDumps(called) /\ called.indent = PyBool(FALSE)
    /\ called.preamble = PreambleVersions
    /\ _versions = ExampleCache
    /\ called.ret.s = ExampleWithoutPatch

\* the string a truthy indent stands for
IndentString(c) == IF c.indent = PyBool(TRUE) THEN <<" ">> ELSE c.indent.s

\* the characters of the result before the line of name n, each line being
\* the indent, the entry and the line separator
LineStart(c, n) ==
    Len(c.preamble) + Len(c.linesep)
    + EntriesLen(Before(n), Len(IndentString(c)) + Len(c.linesep))

\* C14: dumps with a truthy indent returns the preamble, the line separator,
\* and one line per cached name in ascending order of the names, each line
\* being the indent string (one space when indent is True, else the string
\* given), name=str(version) and the platform's line separator
C14_IndentedDumps ==
    (IsDumps(called) /\ Truthy(called.indent))
    => /\ Len(called.ret.s)
          = Len(called.preamble) + Len(called.linesep)
            + EntriesLen(DOMAIN _versions, Len(IndentString(called)) + Len(called.linesep))
       /\ SubSeq(called.ret.s, 1, Len(called.preamble) + Len(called.linesep))
          = called.preamble \o called.linesep
       /\ \A n \in DOMAIN _versions :
             SubSeq(called.ret.s, LineStart(called, n) + 1,
                    LineStart(called, n) + Len(IndentString(called))
                    + Len(EntryOf(n)) + Len(called.linesep))
             = IndentString(called) \o EntryOf(n) \o called.linesep

\* dumps(indent="  ") of the cache {a: StrictVersion("1.0.0"), b: UNKNOWN}
\* where the line separator is "\r\n"
C14_Witness ==
    /\ IsDumps(called) /\ called.indent = PyStr(<<" ", " ">>)
    /\ called.linesep = <<"\r", "\n">>
    /\ called.preamble = PreambleVersions
    /\ _versions = ExampleCache
    /\ called.ret.s = PreambleVersions
                      \o <<"\r", "\n", " ", " ", "a", "=", "1", ".", "0">>
                      \o <<"\r", "\n", " ", " ", "b", "=">> \o UnknownVersion__str__(UNKNOWN)
                      \o <<"\r", "\n">>

\* C15: a lookup calls __import__ only when it is given a name that is
\* neither cached nor in sys.modules; a lookup by handle never imports and
\* leaves sys.modules alone; a lookup of an uncached name that is loaded
\* resolves the handle sys.modules holds, without importing
C15_ImportOnlyWhenNeeded ==
    [][IsLookup(called')
       => /\ called'.imported
             => /\ called'.kind = "name"
                /\ called'.modname \notin DOMAIN _versions
                /\ called'.modname \notin DOMAIN sys_modules
          /\ called'.kind = "handle"
             => ~called'.imported /\ sys_modules' = sys_modules
          /\ (/\ called'.kind = "name"
              /\ called'.modname \notin DOMAIN _versions
              /\ called'.modname \in DOMAIN sys_modules)
             => /\ ~called'.imported
                /\ called'.deduced
                /\ called'.module = sys_modules[called'.modname]
                /\ sys_modules' = sys_modules]_vars

\* a lookup by name resolved the module other code had loaded, to 1.4.2,
\* without an import
C15_Witness ==
    /\ IsLookup(called) /\ called.kind = "name"
    /\ ~called.imported /\ called.deduced
    /\ called.module = sys_modules[called.modname]
    /\ called.ret = StrictVersion(PyStr(Str142))
    /\ _versions[called.modname] = called.ret

\* what a metadata capability answers for the module
MetadataAnswer(c) == c.md[DistributionName(c.module.__name__)]

OnlyAttribute(module, a) == Module(module.__name__, Dunder1(module.attrs[a]))

\* C17: when __version__ is present the result is what the module would
\* resolve to without its version attribute, also when __version__ is empty
\* and version is not (the metadata is asked then); version decides only
\* when __version__ is absent
C17_FirstPresentAttributeWins ==
    IsDeduce(called)
    => /\ "__version__" \in DOMAIN called.module.attrs
          => /\ called.ret = _deduce_version(OnlyAttribute(called.module, "__version__"),
                                             called.md)
             /\ ~Truthy(SequenceToString(called.module.attrs["__version__"]))
                => called.queried = {DistributionName(called.module.__name__)}
       /\ DOMAIN called.module.attrs = {"version"}
          => called.ret = _deduce_version(OnlyAttribute(called.module, "version"),
                                         called.md)

\* __version__ = "" and version = "1.4.2": the metadata, not version, gave
\* the result
C17_Witness ==
    /\ IsDeduce(called)
    /\ called.module = Module("b", Both(PyStr(<<>>), PyStr(Str142)))
    /\ called.md = OnlyFor("b", PyStr(Str14b1))
    /\ called.queried = {"b"}
    /\ called.ret = StrictVersion(PyStr(Str14b1))

\* C18: an entry is keyed by the name of the handle it was resolved from:
\* a lookup that stores an entry, by handle or by name, stores under its
\* name the resolution of a handle that reports that name
C18_EntriesKeyedByHandleName ==
    (IsLookup(called) /\ called.deduced /\ ~IsRaise(called.ret))
    => /\ called.modname \in DOMAIN _versions
       /\ _versions[called.modname] = _deduce_version(called.module, called.md)
       /\ called.module.__name__ = called.modname

BothResolved ==
    /\ called.op = "threads"
    /\ \A t \in Threads :
          /\ threads[t].pc = "done"
          /\ threads[t].missed /\ threads[t].deduced
          /\ ~IsRaise(threads[t].ret)

\* C19: when two interleaved lookups of the same uncached name both miss
\* and both resolve, with import and metadata behaving the same for both,
\* they return equal values and the cache then holds one entry for the
\* name, with that value
C19_DuplicateResolutionIsBenign ==
    BothResolved
    => /\ \A t, u \in Threads : threads[t].ret = threads[u].ret
       /\ DOMAIN _versions = {called.modname}
       /\ \A t \in Threads : _versions[called.modname] = threads[t].ret

=============================================================================
